---- MODULE Spec2Model ----
(***************************************************************************)
(* Model of discover_server, the mDNS discovery command of the clubscore   *)
(* scoreboard application                                                  *)
(* (src/apps/scoreboard-windows/src-tauri/src/main.rs).                    *)
(*                                                                         *)
(* Every caller context runs the body of discover_server step by step      *)
(* (pc).  Each call owns its ServiceDaemon (daemon), its event channel     *)
(* (chan) and its locals (deadline, found).  The environment delivers      *)
(* events to a running session, may kill a session's daemon thread         *)
(* (the channel becomes disconnected) and advances the clock.              *)
(*                                                                         *)
(* Timing: the only blocking operation of the function is                  *)
(* receiver.recv_timeout; all other statements take no time.  The clock    *)
(* therefore advances only while every call in progress is blocked in      *)
(* recv_timeout on an empty channel (or spins on a disconnected one), and  *)
(* a wait never lasts longer than PollSlice.                                *)
(*                                                                         *)
(* Specifications: Spec (one caller, calls in sequence), SpecPair (two     *)
(* callers at once), SpecDefault (timeout_ms absent next to 2500) and      *)
(* SpecLive (one call under fair scheduling and an advancing clock).       *)
(***************************************************************************)
EXTENDS Integers, Sequences, FiniteSets, TLC

\* ------------------------------------------------------------------ bounds
MaxTime == 1000
MaxEvents == 3
MaxCalls == 2
MaxPairTime == 900
MaxPairEvents == 2
MaxDefaultTime == 3100
MaxDefaultEvents == 2
MaxLiveTime == 1000
MaxLiveEvents == 2

\* the caller contexts that may run discover_server at the same time
Callers == {1, 2}
\* the amounts of time (ms) by which the clock is observed to advance
TickSteps == {100}
\* the timeout_ms arguments tried: Some(t) is <<t>>, None is <<>>
TimeoutArgs == {<<0>>, <<100>>, <<400>>}
PairTimeoutArgs == {<<100>>}
\* the caller of the sequential specification
Solo == 1
\* the arguments and clock steps of the specification of the default timeout
DefaultArgs == {<<>>, <<2500>>}
DefaultTickSteps == {300}

\* ------------------------------------------------------- program constants
DefaultTimeoutMs == 2500
PollSlice == 300

\* Option<T>: None is the empty sequence, Some(x) the one-element sequence
None == <<>>
Some(x) == <<x>>

\* ------------------------------------------------------------ data values
\* IP addresses as their four octets
Addr1 == <<10, 0, 0, 5>>
Addr2 == <<192, 168, 1, 20>>

\* addr.to_string() of an IPv4 address: dotted decimal
AddrToString(a) ==
    ToString(a[1]) \o "." \o ToString(a[2]) \o "." \o ToString(a[3]) \o "." \o ToString(a[4])

\* ServiceInfo: addresses in the order get_addresses().iter() yields them
InfoWithAddrs == [addresses |-> <<Addr1, Addr2>>, hostname |-> "scoreboard.local.", port |-> 4123]
InfoNoAddrs == [addresses |-> <<>>, hostname |-> "court2.local.", port |-> 8080]
NoInfo == [addresses |-> <<>>, hostname |-> "", port |-> 0]

\* ServiceEvent values
Resolved(info) == [kind |-> "ServiceResolved", info |-> info]
OtherEvent(k) == [kind |-> k, info |-> NoInfo]
ResolvedEvents == {Resolved(InfoWithAddrs), Resolved(InfoNoAddrs)}
OtherEvents == {OtherEvent("ServiceFound")}
Events == ResolvedEvents \cup OtherEvents

IsResolved(ev) == ev.kind = "ServiceResolved"

\* mdns_sd::Error values and err.to_string()
ErrAgain == [variant |-> "Again", text |-> ""]
ErrMsg == [variant |-> "Msg", text |-> "no usable interface"]
Errors == {ErrAgain, ErrMsg}
ErrToString(e) == IF e.variant = "Again" THEN "try again" ELSE e.text

\* Result<Option<DiscoveryResult>, String>
Ok(v) == [tag |-> "Ok", val |-> v, msg |-> ""]
Err(m) == [tag |-> "Err", val |-> None, msg |-> m]
NoRet == [tag |-> "none", val |-> None, msg |-> ""]

\* ------------------------------------------------------------------ state
VARIABLES
    now,          \* Instant::now(), ms
    ncalls,       \* invocations so far
    pc,           \* position of each caller in discover_server
    arg,          \* timeout_ms of the call in progress
    invokedAt,    \* time of invocation
    daemon,       \* the call's ServiceDaemon: "none", "running", "dropped", "shutdown"
    shutdowns,    \* number of mdns.shutdown() calls of the call
    chan,         \* the receiver's queue of undelivered events
    disconnected, \* the sending side of the channel is gone
    deadline,     \* local deadline
    waitStart,    \* start of the recv_timeout in progress
    found,        \* local found
    ret,          \* value returned by the call
    retAt,        \* time of return
    browsed,      \* outcome of browse in this call: "no", "ok", "failed"
    cause,        \* the error ServiceDaemon::new or browse raised in this call, if any
    polled,       \* a recv_timeout was started in this call
    delivered,    \* history: events the session's channel delivered; early: before the
                  \* deadline; wakes: into a recv_timeout blocked on the empty channel
    consumed,     \* history: events recv_timeout handed to the loop
    shutdownRes,  \* history: outcome of mdns.shutdown(): "none", "ok", "err"
    earlier       \* history: results returned by calls that have ended

vars == <<now, ncalls, pc, arg, invokedAt, daemon, shutdowns, chan, disconnected,
          deadline, waitStart, found, ret, retAt, browsed, cause, polled, delivered,
          consumed, shutdownRes, earlier>>

\* unwrap_or with another default than the documented 2500 ms
TimeoutOfOtherDefault(a) == IF a = None THEN 2000 ELSE a[1]

\* timeout_ms.unwrap_or(2500)
TimeoutOf(a) == IF a = None THEN DefaultTimeoutMs ELSE a[1]

Init ==
    /\ now = 0
    /\ ncalls = 0
    /\ pc = [c \in Callers |-> "idle"]
    /\ arg = [c \in Callers |-> None]
    /\ invokedAt = [c \in Callers |-> 0]
    /\ daemon = [c \in Callers |-> "none"]
    /\ shutdowns = [c \in Callers |-> 0]
    /\ chan = [c \in Callers |-> <<>>]
    /\ disconnected = [c \in Callers |-> FALSE]
    /\ deadline = [c \in Callers |-> 0]
    /\ waitStart = [c \in Callers |-> 0]
    /\ found = [c \in Callers |-> None]
    /\ ret = [c \in Callers |-> NoRet]
    /\ retAt = [c \in Callers |-> 0]
    /\ browsed = [c \in Callers |-> "no"]
    /\ cause = [c \in Callers |-> None]
    /\ polled = [c \in Callers |-> FALSE]
    /\ delivered = [c \in Callers |-> <<>>]
    /\ consumed = [c \in Callers |-> <<>>]
    /\ shutdownRes = [c \in Callers |-> "none"]
    /\ earlier = {}

\* --------------------------------------------------------------- the call
\* the command is invoked with timeout_ms = a
Invoke(c, a) ==
    /\ pc[c] \in {"idle", "returned"}
    /\ ncalls' = ncalls + 1
    /\ pc' = [pc EXCEPT ![c] = "new"]
    /\ arg' = [arg EXCEPT ![c] = a]
    /\ invokedAt' = [invokedAt EXCEPT ![c] = now]
    /\ daemon' = [daemon EXCEPT ![c] = "none"]
    /\ shutdowns' = [shutdowns EXCEPT ![c] = 0]
    /\ chan' = [chan EXCEPT ![c] = <<>>]
    /\ disconnected' = [disconnected EXCEPT ![c] = FALSE]
    /\ ret' = [ret EXCEPT ![c] = NoRet]
    /\ browsed' = [browsed EXCEPT ![c] = "no"]
    /\ cause' = [cause EXCEPT ![c] = None]
    /\ polled' = [polled EXCEPT ![c] = FALSE]
    /\ delivered' = [delivered EXCEPT ![c] = <<>>]
    /\ consumed' = [consumed EXCEPT ![c] = <<>>]
    /\ shutdownRes' = [shutdownRes EXCEPT ![c] = "none"]
    /\ earlier' = IF pc[c] = "returned" THEN earlier \cup {ret[c]} ELSE earlier
    /\ deadline' = [deadline EXCEPT ![c] = 0]
    /\ waitStart' = [waitStart EXCEPT ![c] = 0]
    /\ retAt' = [retAt EXCEPT ![c] = 0]
    /\ UNCHANGED <<now, found>>

\* return r from the call
ReturnWith(c, r) ==
    /\ pc' = [pc EXCEPT ![c] = "returned"]
    /\ ret' = [ret EXCEPT ![c] = r]
    /\ retAt' = [retAt EXCEPT ![c] = now]

\* line 15 with the deadline of line 21 computed before browse is issued
NewOkSetsDeadline(c) ==
    /\ pc[c] = "new"
    /\ daemon' = [daemon EXCEPT ![c] = "running"]
    /\ deadline' = [deadline EXCEPT ![c] = now + TimeoutOf(arg[c])]
    /\ pc' = [pc EXCEPT ![c] = "browse"]
    /\ UNCHANGED <<now, ncalls, arg, invokedAt, shutdowns, chan, disconnected,
                   waitStart, found, ret, retAt, browsed, cause, polled, delivered, consumed,
                   earlier, shutdownRes>>

\* line 15: ServiceDaemon::new() succeeds
NewOk(c) ==
    /\ pc[c] = "new"
    /\ daemon' = [daemon EXCEPT ![c] = "running"]
    /\ pc' = [pc EXCEPT ![c] = "browse"]
    /\ UNCHANGED <<now, ncalls, arg, invokedAt, shutdowns, chan, disconnected, deadline,
                   waitStart, found, ret, retAt, browsed, cause, polled, delivered, consumed,
                   earlier, shutdownRes>>

\* line 15 with the error swallowed: the call goes on to browse
NewFailIgnored(c, e) ==
    /\ pc[c] = "new"
    /\ cause' = [cause EXCEPT ![c] = Some(e)]
    /\ pc' = [pc EXCEPT ![c] = "browse"]
    /\ UNCHANGED <<now, ncalls, arg, invokedAt, daemon, shutdowns, chan, disconnected,
                   deadline, waitStart, found, ret, retAt, browsed, polled, delivered,
                   consumed, earlier, shutdownRes>>

\* line 15: ServiceDaemon::new() fails: map_err(to_string)?
NewFail(c, e) ==
    /\ pc[c] = "new"
    /\ cause' = [cause EXCEPT ![c] = Some(e)]
    /\ ReturnWith(c, Err(ErrToString(e)))
    /\ UNCHANGED <<now, ncalls, arg, invokedAt, daemon, shutdowns, chan, disconnected,
                   deadline, waitStart, found, browsed, polled, delivered, consumed,
                   earlier, shutdownRes>>

\* lines 16-18: mdns.browse(..) succeeds and hands out the receiver
BrowseOk(c) ==
    /\ pc[c] = "browse"
    /\ browsed' = [browsed EXCEPT ![c] = "ok"]
    /\ chan' = [chan EXCEPT ![c] = <<>>]
    /\ pc' = [pc EXCEPT ![c] = "deadline"]
    /\ UNCHANGED <<now, ncalls, arg, invokedAt, daemon, shutdowns, disconnected, deadline,
                   waitStart, found, ret, retAt, cause, polled, delivered, consumed, earlier,
                   shutdownRes>>

\* lines 16-18: mdns.browse(..) fails: map_err(to_string)? returns at once;
\* mdns goes out of scope, shutdown is not called
BrowseFail(c, e) ==
    /\ pc[c] = "browse"
    /\ browsed' = [browsed EXCEPT ![c] = "failed"]
    /\ cause' = [cause EXCEPT ![c] = Some(e)]
    /\ daemon' = [daemon EXCEPT ![c] = "dropped"]
    /\ ReturnWith(c, Err(ErrToString(e)))
    /\ UNCHANGED <<now, ncalls, arg, invokedAt, shutdowns, chan, disconnected, deadline,
                   waitStart, found, polled, delivered, consumed, earlier, shutdownRes>>

\* lines 20-22 with found kept from the call before instead of starting as None
SetDeadlineKeepsFound(c) ==
    /\ pc[c] = "deadline"
    /\ deadline' = [deadline EXCEPT ![c] = now + TimeoutOf(arg[c])]
    /\ pc' = [pc EXCEPT ![c] = "check"]
    /\ UNCHANGED <<now, ncalls, arg, invokedAt, daemon, shutdowns, chan, disconnected,
                   waitStart, found, ret, retAt, browsed, cause, polled, delivered, consumed,
                   earlier, shutdownRes>>

\* lines 20-22: timeout, deadline, found
SetDeadline(c) ==
    /\ pc[c] = "deadline"
    /\ deadline' = [deadline EXCEPT ![c] = now + TimeoutOf(arg[c])]
    /\ found' = [found EXCEPT ![c] = None]
    /\ pc' = [pc EXCEPT ![c] = "check"]
    /\ UNCHANGED <<now, ncalls, arg, invokedAt, daemon, shutdowns, chan, disconnected,
                   waitStart, ret, retAt, browsed, cause, polled, delivered, consumed, earlier, shutdownRes>>

\* line 24 with <= for <
LoopCondInclusive(c) == now <= deadline[c]

\* line 24 looping until something is found, whatever the deadline
LoopCondUntilFound(c) == found[c] = None

\* line 24: Instant::now() < deadline
LoopCond(c) == now < deadline[c]

\* line 24: the loop condition; line 25: recv_timeout starts
LoopCheck(c) ==
    /\ pc[c] = "check"
    /\ IF LoopCond(c)
         THEN /\ pc' = [pc EXCEPT ![c] = "recv"]
              /\ waitStart' = [waitStart EXCEPT ![c] = now]
              /\ polled' = [polled EXCEPT ![c] = TRUE]
         ELSE /\ pc' = [pc EXCEPT ![c] = "shutdown"]
              /\ UNCHANGED <<waitStart, polled>>
    /\ UNCHANGED <<now, ncalls, arg, invokedAt, daemon, shutdowns, chan, disconnected,
                   deadline, found, ret, retAt, browsed, cause, delivered, consumed, earlier, shutdownRes>>

\* lines 27-32 preferring the hostname to the addresses
HostOfHostnameFirst(info) ==
    IF info.hostname # "" THEN info.hostname ELSE AddrToString(Head(info.addresses))

\* lines 27-32: first address as text, else the hostname
HostOf(info) ==
    IF info.addresses # <<>> THEN AddrToString(Head(info.addresses)) ELSE info.hostname

\* lines 34-37: DiscoveryResult { host, port: info.get_port() }
MakeResult(info) == [host |-> HostOf(info), port |-> info.port]

\* line 25: what recv_timeout hands out of a non-empty channel: the oldest event
NextEvent(c) == Head(chan[c])

\* lines 25-39 without the break: the loop goes on after a Resolved event
RecvResolvedNoBreak(c) ==
    /\ pc[c] = "recv"
    /\ chan[c] # <<>>
    /\ IsResolved(NextEvent(c))
    /\ chan' = [chan EXCEPT ![c] = Tail(chan[c])]
    /\ consumed' = [consumed EXCEPT ![c] = Append(consumed[c], NextEvent(c))]
    /\ found' = [found EXCEPT ![c] = Some(MakeResult(NextEvent(c).info))]
    /\ pc' = [pc EXCEPT ![c] = "check"]
    /\ UNCHANGED <<now, ncalls, arg, invokedAt, daemon, shutdowns, disconnected, deadline,
                   waitStart, ret, retAt, browsed, cause, polled, delivered, shutdownRes, earlier>>

\* lines 25-39: recv_timeout returns Ok(ServiceResolved(info)): store, break
RecvResolved(c) ==
    /\ pc[c] = "recv"
    /\ chan[c] # <<>>
    /\ IsResolved(NextEvent(c))
    /\ chan' = [chan EXCEPT ![c] = Tail(chan[c])]
    /\ consumed' = [consumed EXCEPT ![c] = Append(consumed[c], NextEvent(c))]
    /\ found' = [found EXCEPT ![c] = Some(MakeResult(NextEvent(c).info))]
    /\ pc' = [pc EXCEPT ![c] = "shutdown"]
    /\ UNCHANGED <<now, ncalls, arg, invokedAt, daemon, shutdowns, disconnected, deadline,
                   waitStart, ret, retAt, browsed, cause, polled, delivered, shutdownRes, earlier>>

\* lines 25, 40 leaving the loop on any other event
RecvOtherBreaks(c) ==
    /\ pc[c] = "recv"
    /\ chan[c] # <<>>
    /\ ~IsResolved(NextEvent(c))
    /\ chan' = [chan EXCEPT ![c] = Tail(chan[c])]
    /\ consumed' = [consumed EXCEPT ![c] = Append(consumed[c], NextEvent(c))]
    /\ pc' = [pc EXCEPT ![c] = "shutdown"]
    /\ UNCHANGED <<now, ncalls, arg, invokedAt, daemon, shutdowns, disconnected, deadline,
                   waitStart, found, ret, retAt, browsed, cause, polled, delivered, shutdownRes,
                   earlier>>

\* lines 25, 40: recv_timeout returns Ok(_), any other event: next iteration
RecvOther(c) ==
    /\ pc[c] = "recv"
    /\ chan[c] # <<>>
    /\ ~IsResolved(NextEvent(c))
    /\ chan' = [chan EXCEPT ![c] = Tail(chan[c])]
    /\ consumed' = [consumed EXCEPT ![c] = Append(consumed[c], NextEvent(c))]
    /\ pc' = [pc EXCEPT ![c] = "check"]
    /\ UNCHANGED <<now, ncalls, arg, invokedAt, daemon, shutdowns, disconnected, deadline,
                   waitStart, found, ret, retAt, browsed, cause, polled, delivered, shutdownRes,
                   earlier>>

\* a wait cap of twice the polling slice
WaitCapDoubled == 2 * PollSlice

\* line 25: the longest a recv_timeout blocks
WaitCap == PollSlice

\* lines 25, 41: recv_timeout returns Err(Timeout) after the per-wait cap
RecvTimeout(c) ==
    /\ pc[c] = "recv"
    /\ chan[c] = <<>>
    /\ now >= waitStart[c] + WaitCap
    /\ pc' = [pc EXCEPT ![c] = "check"]
    /\ UNCHANGED <<now, ncalls, arg, invokedAt, daemon, shutdowns, chan, disconnected,
                   deadline, waitStart, found, ret, retAt, browsed, cause, polled, delivered,
                   consumed, shutdownRes, earlier>>

\* lines 25, 41 propagating the receive error out of the call
RecvDisconnectedFails(c) ==
    /\ pc[c] = "recv"
    /\ chan[c] = <<>>
    /\ disconnected[c]
    /\ ReturnWith(c, Err("channel disconnected"))
    /\ UNCHANGED <<now, ncalls, arg, invokedAt, daemon, shutdowns, chan, disconnected,
                   deadline, waitStart, found, browsed, cause, polled, delivered,
                   consumed, shutdownRes, earlier>>

\* lines 25, 41 with the receive retried at once, the deadline not looked at
RecvDisconnectedRetries(c) ==
    /\ pc[c] = "recv"
    /\ chan[c] = <<>>
    /\ disconnected[c]
    /\ waitStart' = [waitStart EXCEPT ![c] = now]
    /\ UNCHANGED <<now, ncalls, pc, arg, invokedAt, daemon, shutdowns, chan, disconnected,
                   deadline, found, ret, retAt, browsed, cause, polled, delivered,
                   consumed, shutdownRes, earlier>>

\* lines 25, 41: recv_timeout returns Err(Disconnected): empty channel, no sender
RecvDisconnected(c) ==
    /\ pc[c] = "recv"
    /\ chan[c] = <<>>
    /\ disconnected[c]
    /\ pc' = [pc EXCEPT ![c] = "check"]
    /\ UNCHANGED <<now, ncalls, arg, invokedAt, daemon, shutdowns, chan, disconnected,
                   deadline, waitStart, found, ret, retAt, browsed, cause, polled, delivered,
                   consumed, shutdownRes, earlier>>

\* line 45 with the error of shutdown propagated: mdns.shutdown().map_err(..)?
ShutdownPropagates(c, ok) ==
    /\ pc[c] = "shutdown"
    /\ shutdowns' = [shutdowns EXCEPT ![c] = shutdowns[c] + 1]
    /\ shutdownRes' = [shutdownRes EXCEPT ![c] = IF ok THEN "ok" ELSE "err"]
    /\ daemon' = [daemon EXCEPT ![c] = IF ok THEN "shutdown" ELSE "dropped"]
    /\ IF ok
         THEN pc' = [pc EXCEPT ![c] = "return"] /\ UNCHANGED <<ret, retAt>>
         ELSE ReturnWith(c, Err("try again"))
    /\ UNCHANGED <<now, ncalls, arg, invokedAt, chan, disconnected, deadline, waitStart,
                   found, browsed, cause, polled, delivered, consumed, earlier>>

\* line 45 on a daemon shared by all calls: shutdown stops every session
ShutdownShared(c, ok) ==
    /\ pc[c] = "shutdown"
    /\ shutdowns' = [shutdowns EXCEPT ![c] = shutdowns[c] + 1]
    /\ shutdownRes' = [shutdownRes EXCEPT ![c] = IF ok THEN "ok" ELSE "err"]
    /\ daemon' = [d \in Callers |-> IF ok /\ daemon[d] = "running" THEN "shutdown" ELSE daemon[d]]
    /\ pc' = [pc EXCEPT ![c] = "return"]
    /\ UNCHANGED <<now, ncalls, arg, invokedAt, chan, disconnected, deadline, waitStart,
                   found, ret, retAt, browsed, cause, polled, delivered, consumed, earlier>>

\* line 45: let _ = mdns.shutdown(); its result is discarded
Shutdown(c, ok) ==
    /\ pc[c] = "shutdown"
    /\ shutdowns' = [shutdowns EXCEPT ![c] = shutdowns[c] + 1]
    /\ shutdownRes' = [shutdownRes EXCEPT ![c] = IF ok THEN "ok" ELSE "err"]
    /\ daemon' = [daemon EXCEPT ![c] = IF ok THEN "shutdown" ELSE daemon[c]]
    /\ pc' = [pc EXCEPT ![c] = "return"]
    /\ UNCHANGED <<now, ncalls, arg, invokedAt, chan, disconnected, deadline, waitStart,
                   found, ret, retAt, browsed, cause, polled, delivered, consumed, earlier>>

\* line 46 reporting an absent result as an error
ReturnAbsentAsErr(c) ==
    /\ pc[c] = "return"
    /\ ReturnWith(c, IF found[c] = None THEN Err("not found") ELSE Ok(found[c]))
    /\ daemon' = [daemon EXCEPT ![c] = IF daemon[c] = "running" THEN "dropped" ELSE daemon[c]]
    /\ UNCHANGED <<now, ncalls, arg, invokedAt, shutdowns, chan, disconnected, deadline,
                   waitStart, found, browsed, cause, polled, delivered, consumed, shutdownRes,
                   earlier>>

\* line 46: Ok(found); the locals, mdns among them, go out of scope
Return(c) ==
    /\ pc[c] = "return"
    /\ ReturnWith(c, Ok(found[c]))
    /\ daemon' = [daemon EXCEPT ![c] = IF daemon[c] = "running" THEN "dropped" ELSE daemon[c]]
    /\ UNCHANGED <<now, ncalls, arg, invokedAt, shutdowns, chan, disconnected, deadline,
                   waitStart, found, browsed, cause, polled, delivered, consumed, shutdownRes,
                   earlier>>

\* -------------------------------------------------------- the environment
\* the session of c holds a receiver the daemon thread can send to
Receiving(c) == browsed[c] = "ok" /\ daemon[c] = "running" /\ pc[c] \in {"check", "recv"}

\* the daemon thread of c's session sends ev on the channel browse returned
Deliver(c, ev) ==
    /\ Receiving(c)
    /\ ~disconnected[c]
    /\ chan' = [chan EXCEPT ![c] = Append(chan[c], ev)]
    /\ delivered' = [delivered EXCEPT ![c] = Append(delivered[c], [ev |-> ev, early |-> now < deadline[c],
                                   wakes |-> pc[c] = "recv" /\ chan[c] = <<>>])]
    /\ UNCHANGED <<now, ncalls, pc, arg, invokedAt, daemon, shutdowns, disconnected, deadline,
                   waitStart, found, ret, retAt, browsed, cause, polled, consumed, shutdownRes,
                   earlier>>

\* the daemon thread of c's session ends: the channel loses its sender
Disconnect(c) ==
    /\ Receiving(c)
    /\ ~disconnected[c]
    /\ disconnected' = [disconnected EXCEPT ![c] = TRUE]
    /\ UNCHANGED <<now, ncalls, pc, arg, invokedAt, daemon, shutdowns, chan, deadline,
                   waitStart, found, ret, retAt, browsed, cause, polled, delivered, consumed,
                   shutdownRes, earlier>>

\* time may pass for c: it is not running, or it is blocked in recv_timeout on
\* an empty channel for no longer than the cap
MayWait(c, d) ==
    \/ pc[c] \in {"idle", "returned"}
    \/ /\ pc[c] = "recv"
       /\ chan[c] = <<>>
       /\ now + d <= waitStart[c] + WaitCap

\* the clock advances by d
Tick(d) ==
    /\ \E c \in Callers : pc[c] = "recv"
    /\ \A c \in Callers : MayWait(c, d)
    /\ now' = now + d
    /\ UNCHANGED <<ncalls, pc, arg, invokedAt, daemon, shutdowns, chan, disconnected,
                   deadline, waitStart, found, ret, retAt, browsed, cause, polled, delivered,
                   consumed, shutdownRes, earlier>>

\* ---------------------------------------------------------- specifications
\* a call invoked now with timeout_ms = a ends before the clock's bound
Horizon(a, bound) == now + TimeoutOf(a) + 2 * PollSlice <= bound

\* one caller running discover_server again and again
Next ==
    \/ \E a \in TimeoutArgs : ncalls < MaxCalls /\ Horizon(a, MaxTime) /\ Invoke(Solo, a)
    \/ NewOk(Solo)
    \/ \E e \in Errors : NewFail(Solo, e)
    \/ BrowseOk(Solo)
    \/ \E e \in Errors : BrowseFail(Solo, e)
    \/ SetDeadline(Solo)
    \/ LoopCheck(Solo)
    \/ RecvResolved(Solo)
    \/ RecvOther(Solo)
    \/ RecvTimeout(Solo)
    \/ RecvDisconnected(Solo)
    \/ \E ok \in BOOLEAN : Shutdown(Solo, ok)
    \/ Return(Solo)
    \/ \E ev \in Events : Len(delivered[Solo]) < MaxEvents /\ Deliver(Solo, ev)
    \/ Disconnect(Solo)
    \/ \E d \in TickSteps : now + d <= MaxTime /\ Tick(d)

Spec == Init /\ [][Next]_vars

\* two callers, each running discover_server once, at the same time or not
PairDelivered == Len(delivered[1]) + Len(delivered[2])

NextPair ==
    \/ \E c \in Callers, a \in PairTimeoutArgs :
          pc[c] = "idle" /\ Horizon(a, MaxPairTime) /\ Invoke(c, a)
    \/ \E c \in Callers : NewOk(c)
    \/ \E c \in Callers, e \in Errors : NewFail(c, e)
    \/ \E c \in Callers : BrowseOk(c)
    \/ \E c \in Callers, e \in Errors : BrowseFail(c, e)
    \/ \E c \in Callers : SetDeadline(c)
    \/ \E c \in Callers : LoopCheck(c)
    \/ \E c \in Callers : RecvResolved(c)
    \/ \E c \in Callers : RecvOther(c)
    \/ \E c \in Callers : RecvTimeout(c)
    \/ \E c \in Callers : RecvDisconnected(c)
    \/ \E c \in Callers, ok \in BOOLEAN : Shutdown(c, ok)
    \/ \E c \in Callers : Return(c)
    \/ \E c \in Callers, ev \in Events : PairDelivered < MaxPairEvents /\ Deliver(c, ev)
    \/ \E c \in Callers : Disconnect(c)
    \/ \E d \in TickSteps : now + d <= MaxPairTime /\ Tick(d)

SpecPair == Init /\ [][NextPair]_vars

\* two callers invoked at the same instant, with timeout_ms absent or 2500,
\* on sessions that stay connected and shut down cleanly
NextDefault ==
    \/ \E c \in Callers, a \in DefaultArgs :
          pc[c] = "idle" /\ Horizon(a, MaxDefaultTime) /\ Invoke(c, a)
    \/ \E c \in Callers : NewOk(c)
    \/ \E c \in Callers, e \in Errors : NewFail(c, e)
    \/ \E c \in Callers : BrowseOk(c)
    \/ \E c \in Callers, e \in Errors : BrowseFail(c, e)
    \/ \E c \in Callers : SetDeadline(c)
    \/ \E c \in Callers : LoopCheck(c)
    \/ \E c \in Callers : RecvResolved(c)
    \/ \E c \in Callers : RecvOther(c)
    \/ \E c \in Callers : RecvTimeout(c)
    \/ \E c \in Callers : Shutdown(c, TRUE)
    \/ \E c \in Callers : Return(c)
    \/ \E c \in Callers, ev \in Events : PairDelivered < MaxDefaultEvents /\ Deliver(c, ev)
    \/ \E d \in DefaultTickSteps : now + d <= MaxDefaultTime /\ Tick(d)

SpecDefault == Init /\ [][NextDefault]_vars

\* the statements of discover_server, run by the thread of caller c
ThreadStep(c) ==
    \/ NewOk(c)
    \/ \E e \in Errors : NewFail(c, e)
    \/ BrowseOk(c)
    \/ \E e \in Errors : BrowseFail(c, e)
    \/ SetDeadline(c)
    \/ LoopCheck(c)
    \/ RecvResolved(c)
    \/ RecvOther(c)
    \/ RecvTimeout(c)
    \/ RecvDisconnected(c)
    \/ \E ok \in BOOLEAN : Shutdown(c, ok)
    \/ Return(c)

\* the clock of the specification of one call under fair scheduling
LiveTick == \E d \in TickSteps : now + d <= MaxLiveTime /\ Tick(d)

\* one call of one caller
NextLive ==
    \/ \E a \in TimeoutArgs :
          pc[Solo] = "idle" /\ Horizon(a, MaxLiveTime) /\ Invoke(Solo, a)
    \/ ThreadStep(Solo)
    \/ \E ev \in Events : Len(delivered[Solo]) < MaxLiveEvents /\ Deliver(Solo, ev)
    \/ Disconnect(Solo)
    \/ LiveTick

\* the thread of the call keeps running and the clock keeps advancing
SpecLive ==
    /\ Init
    /\ [][NextLive]_vars
    /\ WF_vars(ThreadStep(Solo))
    /\ SF_vars(LiveTick)

\* ------------------------------------------------------------------ claims
Active(c) == pc[c] \notin {"idle", "returned"}
Returned(c) == pc[c] = "returned"
\* the call acquired its session and its browse was accepted
InitOk(c) == browsed[c] = "ok"
\* the positions of the Resolved events among the events delivered to c's session
ResolvedAt(c) == {i \in 1..Len(delivered[c]) : delivered[c][i].ev.kind = "ServiceResolved"}

C2_ReleasedExactlyOnceOnEveryExit ==
    \A c \in Callers : (Returned(c) /\ daemon[c] # "none") => shutdowns[c] = 1

\* C3: a call whose acquisition and browse succeeded and whose session never
\* delivered a Resolved event returns Ok(None), at or after its deadline.
C3_AbsentAfterDeadlineWithoutResolved ==
    \A c \in Callers :
        (Returned(c) /\ InitOk(c) /\ ResolvedAt(c) = {}) =>
            /\ ret[c] = Ok(None)
            /\ retAt[c] >= deadline[c]

\* C3 witness: such a call returned after waits that timed out and after
\* consuming a non-Resolved event.
C3_Witness ==
    /\ Returned(Solo)
    /\ InitOk(Solo)
    /\ ResolvedAt(Solo) = {}
    /\ Len(consumed[Solo]) >= 1
    /\ retAt[Solo] >= invokedAt[Solo] + 2 * PollSlice
    /\ ret[Solo] = Ok(None)

\* the position of the first Resolved event delivered to c's session
FirstResolvedAt(c) == CHOOSE i \in ResolvedAt(c) : \A j \in ResolvedAt(c) : i <= j

\* C4: events are consumed in delivery order, none after the first Resolved
\* one, and a present result is built from the first Resolved event delivered.
C4_FirstResolvedWins ==
    \A c \in Callers :
        /\ Len(consumed[c]) <= Len(delivered[c])
        /\ \A i \in 1..Len(consumed[c]) : consumed[c][i] = delivered[c][i].ev
        /\ \A i \in 1..(Len(consumed[c]) - 1) : consumed[c][i].kind # "ServiceResolved"
        /\ (Returned(c) /\ ret[c].tag = "Ok" /\ ret[c].val # None) =>
              /\ ResolvedAt(c) # {}
              /\ ret[c].val = Some(MakeResult(delivered[c][FirstResolvedAt(c)].ev.info))

\* C4 witness: two different Resolved events were delivered, the call returned
\* the result of the first and left the second unconsumed.
C4_Witness ==
    /\ Returned(Solo)
    /\ Cardinality(ResolvedAt(Solo)) = 2
    /\ \E i, j \in ResolvedAt(Solo) : i < j /\ delivered[Solo][i].ev # delivered[Solo][j].ev
    /\ ret[Solo] = Ok(Some(MakeResult(delivered[Solo][FirstResolvedAt(Solo)].ev.info)))
    /\ chan[Solo] # <<>>

C6_HostIsFirstAddressElseHostname ==
    \A c \in Callers :
        (consumed[c] # <<>> /\ consumed[c][Len(consumed[c])].kind = "ServiceResolved") =>
            LET info == consumed[c][Len(consumed[c])].info IN
            /\ found[c] # None
            /\ found[c][1].port = info.port
            /\ info.addresses # <<>> => found[c][1].host = AddrToString(info.addresses[1])
            /\ info.addresses = <<>> => found[c][1].host = info.hostname
            /\ info = InfoWithAddrs => found[c][1] = [host |-> "10.0.0.5", port |-> 4123]
            /\ info = InfoNoAddrs => found[c][1] = [host |-> "court2.local.", port |-> 8080]

\* C6 witness: a call returned the hostname of an event without addresses, and
\* an earlier call had returned the first address of an event with two.
C6_Witness ==
    /\ Returned(Solo)
    /\ ret[Solo] = Ok(Some([host |-> "court2.local.", port |-> 8080]))
    /\ Ok(Some([host |-> "10.0.0.5", port |-> 4123])) \in earlier

\* C7: a call whose session acquisition failed returns Err with the cause as
\* text, having issued no browse, started no wait and consumed no event.
C7_AcquireFailureReturnsErrWithoutPolling ==
    \A c \in Callers :
        (Returned(c) /\ daemon[c] = "none") =>
            /\ cause[c] # None
            /\ ret[c] = Err(ErrToString(cause[c][1]))
            /\ browsed[c] = "no"
            /\ ~polled[c]
            /\ consumed[c] = <<>>
            /\ delivered[c] = <<>>

\* C7 witness: a call returned the acquisition error.
C7_Witness ==
    /\ Returned(Solo)
    /\ daemon[Solo] = "none"
    /\ cause[Solo] = Some(ErrMsg)
    /\ ret[Solo] = Err("no usable interface")

\* C8: a call returns Err exactly when its acquisition or its browse failed;
\* after both succeeded it returns Ok.
C8_ErrOnlyFromInitialisation ==
    \A c \in Callers :
        Returned(c) =>
            /\ ret[c].tag \in {"Ok", "Err"}
            /\ ret[c].tag = "Err" <=> (daemon[c] = "none" \/ browsed[c] = "failed")
            /\ InitOk(c) => ret[c].tag = "Ok"

\* C8 witness: a call returned Ok after its channel was disconnected, a wait
\* timed out and a non-Resolved event was consumed.
C8_Witness ==
    /\ Returned(Solo)
    /\ InitOk(Solo)
    /\ disconnected[Solo]
    /\ consumed[Solo] # <<>>
    /\ retAt[Solo] >= invokedAt[Solo] + PollSlice
    /\ ret[Solo].tag = "Ok"

\* the outcome of c's call as its own session determines it
OwnOutcome(c) ==
    IF daemon[c] = "none" \/ browsed[c] = "failed"
      THEN cause[c] # None /\ ret[c] = Err(ErrToString(cause[c][1]))
    ELSE IF ResolvedAt(c) = {}
      THEN ret[c] = Ok(None)
    ELSE LET first == delivered[c][FirstResolvedAt(c)] IN
         IF first.early
           THEN ret[c] = Ok(Some(MakeResult(first.ev.info)))
           ELSE ret[c] \in {Ok(Some(MakeResult(first.ev.info))), Ok(None)}

\* the program state of d's call is left as it is by a step
Untouched(d) ==
    /\ pc'[d] = pc[d]
    /\ daemon'[d] = daemon[d]
    /\ shutdowns'[d] = shutdowns[d]
    /\ chan'[d] = chan[d]
    /\ disconnected'[d] = disconnected[d]
    /\ deadline'[d] = deadline[d]
    /\ found'[d] = found[d]
    /\ ret'[d] = ret[d]
    /\ consumed'[d] = consumed[d]

\* C9: with two calls in progress at once, each returned outcome is the one the
\* call's own session determines, and a step that acquires or releases one
\* call's session leaves the other call's session, polling and result alone.
C9_ConcurrentCallsAreIndependent ==
    [][\A c \in Callers :
          /\ Returned(c)' => OwnOutcome(c)'
          /\ (daemon'[c] # daemon[c] \/ shutdowns'[c] # shutdowns[c]) =>
                \A d \in Callers \ {c} : Untouched(d)]_vars

\* C9 witness: the two calls overlapped; caller 1 found a service and released
\* its session while caller 2 was still polling; caller 2 then timed out absent.
C9_Witness ==
    /\ Returned(1) /\ Returned(2)
    /\ invokedAt[2] < retAt[1]
    /\ retAt[1] < retAt[2]
    /\ shutdownRes[1] = "ok"
    /\ ret[1].tag = "Ok" /\ ret[1].val # None
    /\ polled[2]
    /\ delivered[2] # <<>>
    /\ ret[2] = Ok(None)

\* C10 as stated: a call during which no Resolved event was delivered returns
\* Ok(None), whatever else happened in it.
C10_NoResponderAlwaysAbsent ==
    \A c \in Callers : (Returned(c) /\ ResolvedAt(c) = {}) => ret[c] = Ok(None)

\* C10 amended: found is None for as long as the loop has consumed no Resolved
\* event, and a call whose acquisition and browse succeeded and whose session
\* delivered no Resolved event returns Ok(None), whatever earlier calls returned.
C10_NoResultSurvivesBetweenCalls ==
    \A c \in Callers :
        /\ pc[c] \in {"check", "recv"} => found[c] = None
        /\ (Returned(c) /\ InitOk(c) /\ ResolvedAt(c) = {}) =>
              /\ ret[c].tag = "Ok"
              /\ ret[c].val = None

\* C10 witness: after a call that returned a present result, a call without
\* responders polled and returned absent.
C10_Witness ==
    /\ Returned(Solo)
    /\ InitOk(Solo)
    /\ polled[Solo]
    /\ ResolvedAt(Solo) = {}
    /\ ret[Solo] = Ok(None)
    /\ \E r \in earlier : r.tag = "Ok" /\ r.val # None

\* the result the polling loop determined: that of the Resolved event it
\* consumed, if it consumed one
LoopResult(c) ==
    IF consumed[c] # <<>> /\ consumed[c][Len(consumed[c])].kind = "ServiceResolved"
      THEN Some(MakeResult(consumed[c][Len(consumed[c])].info))
      ELSE None

\* C11: a call whose shutdown failed still returns Ok with the result the
\* polling loop determined.
C11_ShutdownFailureKeepsOutcome ==
    \A c \in Callers :
        (Returned(c) /\ shutdownRes[c] = "err") => ret[c] = Ok(LoopResult(c))

\* C11 witness: shutdown failed after the loop had found a service, and the
\* call returned that service.
C11_Witness ==
    /\ Returned(Solo)
    /\ shutdownRes[Solo] = "err"
    /\ daemon[Solo] = "dropped"
    /\ LoopResult(Solo) # None
    /\ ret[Solo] = Ok(LoopResult(Solo))

\* C12: the steps of a call come in the order acquire, browse, poll, release,
\* return: browse is issued on an acquired session, the deadline is set only
\* after browse succeeded, events are consumed only between browse and the
\* release, the release follows the loop, and Ok is returned after the release.
C12_StepsInFixedOrder ==
    [][\A c \in Callers :
          /\ browsed'[c] # browsed[c] /\ browsed'[c] # "no" =>
                daemon[c] = "running" /\ pc[c] = "browse"
          /\ deadline'[c] # deadline[c] /\ pc'[c] # "new" =>
                browsed[c] = "ok" /\ ~polled[c] /\ consumed[c] = <<>>
          /\ polled'[c] /\ ~polled[c] =>
                browsed[c] = "ok" /\ pc[c] = "check" /\ shutdowns[c] = 0
          /\ consumed'[c] # consumed[c] /\ consumed'[c] # <<>> =>
                browsed[c] = "ok" /\ pc[c] = "recv" /\ shutdowns[c] = 0
          /\ shutdowns'[c] > shutdowns[c] =>
                browsed[c] = "ok" /\ pc[c] = "shutdown" /\ consumed'[c] = consumed[c]
          /\ Returned(c)' /\ ~Returned(c) /\ ret'[c].tag = "Ok" =>
                shutdowns[c] = 1 /\ pc[c] = "return"]_vars

\* C12 witness: a call went through all five steps, consuming two events.
C12_Witness ==
    /\ Returned(Solo)
    /\ InitOk(Solo)
    /\ Len(consumed[Solo]) = 2
    /\ deadline[Solo] = invokedAt[Solo] + 400
    /\ shutdowns[Solo] = 1
    /\ ret[Solo].tag = "Ok"

\* C13: within a call found changes only from None to Some, in the loop, and at
\* most once; it is set to None only by its initialisation on line 22; and the
\* value returned is found as the loop left it.
C13_AtMostOneResultPerCall ==
    [][\A c \in Callers :
          /\ found'[c] # found[c] =>
                \/ pc[c] = "deadline" /\ found'[c] = None
                \/ pc[c] = "recv" /\ found[c] = None /\ found'[c] # None /\ pc'[c] = "shutdown"
          /\ Returned(c)' /\ ~Returned(c) /\ ret'[c].tag = "Ok" =>
                ret'[c].val = found[c] /\ ret'[c].val = LoopResult(c)]_vars

\* C13 witness: the loop has stored a result and is about to return it while a
\* Resolved event for another service waits unconsumed in the channel.
C13_Witness ==
    /\ pc[Solo] = "return"
    /\ found[Solo] # None
    /\ \E i \in 1..Len(chan[Solo]) :
          /\ chan[Solo][i].kind = "ServiceResolved"
          /\ Some(MakeResult(chan[Solo][i].info)) # found[Solo]

\* C14: every wait starts strictly before the deadline, and a call with
\* timeout_ms = 0 starts no wait, consumes no event and returns Ok(None).
C14_NoWaitAtOrAfterDeadline ==
    \A c \in Callers :
        /\ pc[c] = "recv" => waitStart[c] < deadline[c]
        /\ polled[c] => waitStart[c] < deadline[c]
        /\ (InitOk(c) /\ arg[c] = Some(0) /\ pc[c] \in {"check", "shutdown", "return", "returned"}) =>
              /\ ~polled[c]
              /\ consumed[c] = <<>>
              /\ found[c] = None
        /\ (Returned(c) /\ InitOk(c) /\ arg[c] = Some(0)) => ret[c] = Ok(None)

\* C14 witness: a call with timeout_ms = 0 returned absent with a Resolved
\* event queued in its channel.
C14_Witness ==
    /\ Returned(Solo)
    /\ arg[Solo] = Some(0)
    /\ chan[Solo] # <<>>
    /\ chan[Solo][1].kind = "ServiceResolved"
    /\ ret[Solo] = Ok(None)

\* C16: when the loop has found a service, the Resolved event was received in a
\* wait that began strictly before the deadline and no later than 300 ms after
\* the deadline, also when that is after the deadline; the call returns then.
C16_LateResultOnlyFromWaitBegunBeforeDeadline ==
    \A c \in Callers :
        /\ (pc[c] \in {"shutdown", "return"} /\ found[c] # None) =>
              /\ waitStart[c] < deadline[c]
              /\ now <= waitStart[c] + 300
              /\ now <= deadline[c] + 300
        /\ (Returned(c) /\ ret[c].tag = "Ok" /\ ret[c].val # None) =>
              /\ polled[c]
              /\ waitStart[c] < deadline[c]
              /\ retAt[c] <= waitStart[c] + 300
              /\ retAt[c] <= deadline[c] + 300

\* C16 witness: a call returned a present result after its deadline had passed.
C16_Witness ==
    /\ Returned(Solo)
    /\ ret[Solo].tag = "Ok"
    /\ ret[Solo].val # None
    /\ retAt[Solo] > deadline[Solo]
    /\ ~delivered[Solo][FirstResolvedAt(Solo)].early

\* the call of c has computed its deadline
PastDeadlineLine(c) == InitOk(c) /\ pc[c] \in {"check", "recv", "shutdown", "return", "returned"}

\* the environment treated the calls of c and d alike: invoked at the same
\* instant, same outcome of new and browse, same events delivered in the same
\* order at the same points of the two calls
SameSchedule(c, d) ==
    /\ invokedAt[c] = invokedAt[d]
    /\ (daemon[c] = "none") = (daemon[d] = "none")
    /\ browsed[c] = browsed[d]
    /\ cause[c] = cause[d]
    /\ delivered[c] = delivered[d]

\* C15: a call with timeout_ms absent and a call with timeout_ms = 2500 have
\* the same deadline offset, 2500 ms after the browse, and under the same
\* delivery schedule they return the same outcome.
C15_AbsentTimeoutIs2500 ==
    \A c, d \in Callers :
        (arg[c] = None /\ arg[d] = Some(2500)) =>
            /\ (PastDeadlineLine(c) /\ PastDeadlineLine(d)) =>
                  /\ deadline[c] - invokedAt[c] = 2500
                  /\ deadline[c] - invokedAt[c] = deadline[d] - invokedAt[d]
            /\ (Returned(c) /\ Returned(d) /\ SameSchedule(c, d)) => ret[c] = ret[d]

\* C15 witness: a call without timeout_ms and a call with 2500 got the same
\* events, the Resolved one after four waits had timed out, and returned the
\* same present result.
C15_Witness ==
    /\ arg[1] = None /\ arg[2] = Some(2500)
    /\ Returned(1) /\ Returned(2)
    /\ SameSchedule(1, 2)
    /\ Len(delivered[1]) = 1
    /\ deadline[1] = 2500 /\ deadline[2] = 2500
    /\ retAt[1] >= 4 * PollSlice
    /\ ret[1].val # None
    /\ ret[1] = ret[2]

====
